---- MODULE Spec2Model ----
(***************************************************************************)
(* A model of zond/sqly (src/sqly.go): the reflection-driven schema        *)
(* synthesis (CreateTableIfNotExists), the upsert mapper (Upsert) and the  *)
(* scoped-transaction helpers DB.Write / DB.Read.                          *)
(*                                                                         *)
(* The statement executor (sqlx.ExecerContext, SQLite in the tests) and    *)
(* sync.RWMutex are collaborators of the code; they are modelled by what   *)
(* the code relies on (see the Exec* and Lock* definitions).               *)
(***************************************************************************)
EXTENDS Integers, Sequences, FiniteSets, TLC

VARIABLES
    prog,     \* the table name (typ.Name()) of the record types in use
    db,       \* the store behind the executor: NoTable or a table
    last,     \* the last CreateTableIfNotExists / Upsert call and its outcome
    mutex,    \* DB.mutex: [writer, readers]
    pc,       \* per caller: position inside DB.Write / DB.Read
    kind,     \* per caller: "Write" or "Read"
    tx,       \* per caller: state of the transaction the call opened
    cb        \* per caller: what the callback f reported

vars == <<prog, db, last, mutex, pc, kind, tx, cb>>
dbVars == <<prog, db, last>>
txVars == <<mutex, pc, kind, tx, cb>>

----------------------------------------------------------------------------
(* Bounds of the model *)

\* largest primary key the store holds
MaxKey == 2
\* largest number of rows a table holds
MaxRows == 2
\* number of concurrent callers of DB.Write / DB.Read
NProcs == 3

----------------------------------------------------------------------------
(* Record types: reflect.Type as the code reads it *)

Tok(t) == [tok |-> t, args |-> <<>>]
TokWith(t, a) == [tok |-> t, args |-> a]

Field(n, k, e, tags) == [name |-> n, kind |-> k, exported |-> e, tags |-> tags]

\* field.IsExported() is false for `unexported int`
FUnexp == Field("unexported", "Int", FALSE, <<>>)

\* like testStruct: Int int `sqly:"pkey,autoinc"` plus a plain field
TBasic1 ==
    [id |-> "Basic1", name |-> "Basic",
     fields |-> << FUnexp,
                   Field("Id", "Int", TRUE, <<Tok("pkey"), Tok("autoinc")>>),
                   Field("A", "Int", TRUE, <<>>) >>]

\* TBasic1 extended by a new field with a unique index
TBasic2 ==
    [id |-> "Basic2", name |-> "Basic",
     fields |-> << FUnexp,
                   Field("Id", "Int", TRUE, <<Tok("pkey"), Tok("autoinc")>>),
                   Field("A", "Int", TRUE, <<>>),
                   Field("B", "Int", TRUE, <<Tok("unique")>>) >>]

\* like indexedTestStruct: plain pkey and a composite unique index
TComp ==
    [id |-> "Comp", name |-> "Comp",
     fields |-> << Field("Id", "Int", TRUE, <<Tok("pkey")>>),
                   Field("A", "Int", TRUE, <<>>),
                   Field("B", "Int", TRUE, <<TokWith("uniqueWith", <<"A">>)>>) >>]

\* a field carrying two directives
TDup ==
    [id |-> "Dup", name |-> "Dup",
     fields |-> << Field("Id", "Int", TRUE, <<Tok("pkey")>>),
                   Field("A", "Int", TRUE, <<Tok("index"), Tok("unique")>>) >>]

\* two fields carrying pkey
TMulti ==
    [id |-> "Multi", name |-> "Multi",
     fields |-> << Field("Id", "Int", TRUE, <<Tok("pkey")>>),
                   Field("K", "Int", TRUE, <<Tok("pkey")>>) >>]

\* an unsigned primary key
TUns ==
    [id |-> "Uns", name |-> "Uns",
     fields |-> << Field("Id", "Uint", TRUE, <<Tok("pkey")>>),
                   Field("A", "Int", TRUE, <<>>) >>]

\* autoinc written before pkey
TRev ==
    [id |-> "Rev", name |-> "Auto",
     fields |-> << Field("Id", "Int", TRUE, <<Tok("autoinc"), Tok("pkey")>>),
                   Field("A", "Int", TRUE, <<>>) >>]

\* autoinc on a primary key that is not INTEGER
TRealAuto ==
    [id |-> "RealAuto", name |-> "Auto",
     fields |-> << Field("Id", "Float64", TRUE, <<Tok("pkey"), Tok("autoinc")>>) >>]

\* autoinc on a field that is not the primary key
TNoPkAuto ==
    [id |-> "NoPkAuto", name |-> "Auto",
     fields |-> << Field("Id", "Int", TRUE, <<Tok("pkey")>>),
                   Field("A", "Int", TRUE, <<Tok("autoinc")>>) >>]

\* a field of a kind with no SQL type, and a type without primary key
TStruct ==
    [id |-> "Struct", name |-> "Auto",
     fields |-> << Field("Id", "Int", TRUE, <<Tok("pkey")>>),
                   Field("S", "Struct", TRUE, <<>>) >>]

TNoPk ==
    [id |-> "NoPk", name |-> "Auto",
     fields |-> << Field("A", "Int", TRUE, <<Tok("other")>>) >>]

Types == {TBasic1, TBasic2, TComp, TDup, TMulti, TUns,
          TRev, TRealAuto, TNoPkAuto, TStruct, TNoPk}

TableNames == {t.name : t \in Types}

----------------------------------------------------------------------------
(* CreateTableIfNotExists: the reflection loop, src/sqly.go 206-307 *)

IntKinds == {"Uint", "Uint8", "Uint16", "Uint32", "Uint64",
             "Int", "Int8", "Int16", "Int32", "Int64"}

\* the switch on field.Type.Kind(); "" stands for the two error returns
SqlTypeOf(k) ==
    CASE k = "String" -> "TEXT"
      [] k \in IntKinds -> "INTEGER"
      [] k \in {"Float32", "Float64"} -> "REAL"
      [] k = "Bool" -> "INTEGER"
      [] k = "Bytes" -> "BLOB"
      [] OTHER -> ""

\* strings.Split(field.Tag.Get("sqly"), ","): an empty annotation is one empty token
SplitTag(tags) == IF tags = <<>> THEN <<Tok("")>> ELSE tags

ParseInit ==
    [err |-> "", primaryKeyCol |-> "", primaryKeySQLType |-> "",
     pkeyAutoInc |-> FALSE, cols |-> <<>>, sqlTypes |-> <<>>, indices |-> <<>>]

\* the switch on one tag: indices, primaryKeyCol, primaryKeySQLType
TagSwitch(ps, f, sqlType, tag) ==
    CASE tag.tok = "unique" ->
            [ps EXCEPT !.indices = Append(@, [cols |-> <<f.name>>, unique |-> TRUE])]
      [] tag.tok = "index" ->
            [ps EXCEPT !.indices = Append(@, [cols |-> <<f.name>>, unique |-> FALSE])]
      [] tag.tok = "pkey" ->
            [ps EXCEPT !.primaryKeyCol = f.name, !.primaryKeySQLType = sqlType]
      [] tag.tok = "uniqueWith" ->
            [ps EXCEPT !.indices = Append(@, [cols |-> <<f.name>> \o tag.args, unique |-> TRUE])]
      [] tag.tok = "indexWith" ->
            [ps EXCEPT !.indices = Append(@, [cols |-> <<f.name>> \o tag.args, unique |-> FALSE])]
      [] OTHER -> ps

\* the tail of the tag loop body, lines 288-301
TagTail(ps, f, sqlType, isPkey, autoIncrement) ==
    IF isPkey
    THEN IF autoIncrement
         THEN IF sqlType # "INTEGER"
              THEN [ps EXCEPT !.err = "AutoIncNotInteger"]
              ELSE [ps EXCEPT !.pkeyAutoInc = TRUE]
         ELSE ps
    ELSE IF autoIncrement
         THEN [ps EXCEPT !.err = "AutoIncNotPkey"]
         ELSE [ps EXCEPT !.cols = Append(@, f.name),
                         !.sqlTypes = Append(@, sqlType)]

\* for _, tag := range strings.Split(...): isPkey and autoIncrement persist
RECURSIVE TagLoop(_, _, _, _, _, _, _)
TagLoop(ps, f, sqlType, tags, i, isPkey, autoIncrement) ==
    IF i > Len(tags) \/ ps.err # "" THEN ps
    ELSE LET tag == tags[i]
             isPkey2 == isPkey \/ tag.tok = "pkey"
             autoInc2 == autoIncrement \/ tag.tok = "autoinc"
             ps2 == TagTail(TagSwitch(ps, f, sqlType, tag), f, sqlType, isPkey2, autoInc2)
         IN TagLoop(ps2, f, sqlType, tags, i + 1, isPkey2, autoInc2)

\* one iteration of the field loop
ParseField(ps, f) ==
    IF ~f.exported THEN ps
    ELSE LET sqlType == SqlTypeOf(f.kind)
         IN IF sqlType = ""
            THEN [ps EXCEPT !.err = "UnsupportedType"]
            ELSE TagLoop(ps, f, sqlType, SplitTag(f.tags), 1, FALSE, FALSE)

RECURSIVE FieldLoop(_, _, _)
FieldLoop(ps, fields, i) ==
    IF i > Len(fields) \/ ps.err # "" THEN ps
    ELSE FieldLoop(ParseField(ps, fields[i]), fields, i + 1)

\* the loop and the check of line 305
ParseType(t) ==
    LET ps == FieldLoop(ParseInit, t.fields, 1)
    IN IF ps.err = "" /\ ps.primaryKeyCol = ""
       THEN [ps EXCEPT !.err = "NoPrimaryKey"]
       ELSE ps

----------------------------------------------------------------------------
(* The statements the code formats, src/sqly.go 177, 308, 312, 325 *)

Stmt(op, table, cols, args, flag) ==
    [op |-> op, table |-> table, cols |-> cols, args |-> args, flag |-> flag]

\* "CREATE TABLE IF NOT EXISTS `%s` (`%s` %s PRIMARY KEY%s)"
CreateTableStmt(t, ps) ==
    Stmt("CreateTable", t.name, <<ps.primaryKeyCol>>, <<ps.primaryKeySQLType>>, ps.pkeyAutoInc)

\* "ALTER TABLE `%s` ADD COLUMN `%s` %s"
AddColumnStmt(t, ps, i) ==
    Stmt("AddColumn", t.name, <<ps.cols[i]>>, <<ps.sqlTypes[i]>>, FALSE)

\* "CREATE %sINDEX IF NOT EXISTS `%s.%s` ON `%s` (%s)": the index name is the
\* type name and the joined column list, so cols stands for the name too
CreateIndexStmt(t, index) ==
    Stmt("CreateIndex", t.name, index.cols, <<>>, index.unique)

\* "INSERT %sINTO `%s` (%s) VALUES (%s)" with params
InsertStmt(t, cols, params, overwrite) ==
    Stmt("Insert", t.name, cols, params, overwrite)

\* the statements of lines 308-328 in the order the code issues them
PlannedStmts(t, ps) ==
    <<CreateTableStmt(t, ps)>>
    \o [i \in 1..Len(ps.cols) |-> AddColumnStmt(t, ps, i)]
    \o [i \in 1..Len(ps.indices) |-> CreateIndexStmt(t, ps.indices[i])]

----------------------------------------------------------------------------
(* The statement executor: execer.ExecContext against SQLite, as the code  *)
(* and its tests use it.  A cell is <<>> (NULL) or <<v>>.                   *)

NULL == <<>>
Cell(v) == <<v>>

NoTable ==
    [exists |-> FALSE, pk |-> "", pkType |-> "", autoinc |-> FALSE,
     cols |-> <<>>, idx |-> {}, rows |-> {}, seq |-> 0]

Max(S) == CHOOSE x \in S : \A y \in S : y <= x

ColNames(tbl) == DOMAIN tbl.cols

Range(s) == {s[i] : i \in DOMAIN s}

\* INTEGER PRIMARY KEY is an alias of the rowid
RowidAlias(tbl) == tbl.pkType = "INTEGER"

ExecResult(d, err, lastID) == [db |-> d, err |-> err, lastID |-> lastID]

\* CREATE TABLE IF NOT EXISTS
ExecCreateTable(d, s) ==
    IF d[s.table].exists THEN ExecResult(d, "", 0)
    ELSE IF s.flag /\ s.args[1] # "INTEGER"
    THEN ExecResult(d, "AUTOINCREMENT is only allowed on an INTEGER PRIMARY KEY", 0)
    ELSE ExecResult(
            [d EXCEPT ![s.table] =
                [exists |-> TRUE, pk |-> s.cols[1], pkType |-> s.args[1],
                 autoinc |-> s.flag,
                 cols |-> [c \in {s.cols[1]} |-> s.args[1]],
                 idx |-> {}, rows |-> {}, seq |-> 0]],
            "", 0)

\* ALTER TABLE ADD COLUMN: no DEFAULT is given, existing rows hold NULL
ExecAddColumn(d, s) ==
    LET tbl == d[s.table]
        col == s.cols[1]
    IN IF ~tbl.exists THEN ExecResult(d, "no such table", 0)
       ELSE IF col \in ColNames(tbl) THEN ExecResult(d, "duplicate column name", 0)
       ELSE ExecResult(
            [d EXCEPT ![s.table] =
                [tbl EXCEPT
                    !.cols = [c \in ColNames(tbl) \cup {col} |->
                                IF c = col THEN s.args[1] ELSE tbl.cols[c]],
                    !.rows = {[rowid |-> r.rowid,
                               cells |-> [c \in ColNames(tbl) \cup {col} |->
                                            IF c = col THEN NULL ELSE r.cells[c]]]
                              : r \in tbl.rows}]],
            "", 0)

\* two rows collide on a column list: every column non-NULL and equal
SameOn(c1, c2, cols) ==
    \A i \in DOMAIN cols : c1[cols[i]] # NULL /\ c1[cols[i]] = c2[cols[i]]

\* CREATE [UNIQUE] INDEX IF NOT EXISTS: a no-op when the name is taken
ExecCreateIndex(d, s) ==
    LET tbl == d[s.table]
    IN IF ~tbl.exists THEN ExecResult(d, "no such table", 0)
       ELSE IF \E ix \in tbl.idx : ix.cols = s.cols THEN ExecResult(d, "", 0)
       ELSE IF ~(Range(s.cols) \subseteq ColNames(tbl))
       THEN ExecResult(d, "no such column", 0)
       ELSE IF s.flag /\ \E r1, r2 \in tbl.rows :
                            r1 # r2 /\ SameOn(r1.cells, r2.cells, s.cols)
       THEN ExecResult(d, "UNIQUE constraint failed", 0)
       ELSE ExecResult(
            [d EXCEPT ![s.table] =
                [tbl EXCEPT !.idx = @ \cup {[cols |-> s.cols, unique |-> s.flag]}]],
            "", 0)

\* position of a column in the statement's column list, 0 if absent
IndexOf(cols, c) ==
    IF \E i \in DOMAIN cols : cols[i] = c
    THEN CHOOSE i \in DOMAIN cols : cols[i] = c
    ELSE 0

\* the rowid SQLite picks when the statement gives none
NewRowid(tbl) ==
    LET top == IF tbl.rows = {} THEN 0 ELSE Max({r.rowid : r \in tbl.rows})
    IN IF tbl.autoinc
       THEN (IF top > tbl.seq THEN top ELSE tbl.seq) + 1
       ELSE IF tbl.rows = {} THEN 1 ELSE top + 1

\* the row an INSERT statement describes
InsertRow(tbl, s) ==
    LET given == [c \in ColNames(tbl) |->
                    IF IndexOf(s.cols, c) = 0 THEN NULL
                    ELSE Cell(s.args[IndexOf(s.cols, c)])]
        rowid == IF RowidAlias(tbl) /\ given[tbl.pk] # NULL
                 THEN given[tbl.pk][1]
                 ELSE NewRowid(tbl)
    IN [rowid |-> rowid,
        cells |-> IF RowidAlias(tbl)
                  THEN [given EXCEPT ![tbl.pk] = Cell(rowid)]
                  ELSE given]

\* the stored rows a new row collides with: rowid, primary key, unique indexes
Conflicts(tbl, row) ==
    {r \in tbl.rows :
        \/ r.rowid = row.rowid
        \/ SameOn(r.cells, row.cells, <<tbl.pk>>)
        \/ \E ix \in tbl.idx : ix.unique /\ SameOn(r.cells, row.cells, ix.cols)}

\* INSERT [OR REPLACE] INTO
ExecInsert(d, s) ==
    LET tbl == d[s.table]
    IN IF ~tbl.exists THEN ExecResult(d, "no such table", 0)
       ELSE IF s.cols = <<>> THEN ExecResult(d, "syntax error", 0)
       ELSE IF ~(Range(s.cols) \subseteq ColNames(tbl))
       THEN ExecResult(d, "no such column", 0)
       ELSE LET row == InsertRow(tbl, s)
                hit == Conflicts(tbl, row)
            IN IF hit # {} /\ ~s.flag
               THEN ExecResult(d, "UNIQUE constraint failed", 0)
               ELSE ExecResult(
                    [d EXCEPT ![s.table] =
                        [tbl EXCEPT
                            !.rows = (@ \ hit) \cup {row},
                            !.seq = IF tbl.autoinc /\ row.rowid > @
                                    THEN row.rowid ELSE @]],
                    "", row.rowid)

\* execer.ExecContext
Exec(d, s) ==
    CASE s.op = "CreateTable" -> ExecCreateTable(d, s)
      [] s.op = "AddColumn" -> ExecAddColumn(d, s)
      [] s.op = "CreateIndex" -> ExecCreateIndex(d, s)
      [] s.op = "Insert" -> ExecInsert(d, s)

\* the zero value of a kind
Zero(k) == 0

\* db.Get(&row, "SELECT * ..."): scanning a cell into a field of kind k; NULL
\* scans into a byte slice only
ReadBack(k, cell) ==
    IF cell = NULL
    THEN IF k = "Bytes" THEN [err |-> "", val |-> Zero(k)]
         ELSE [err |-> "converting NULL is unsupported", val |-> Zero(k)]
    ELSE [err |-> "", val |-> cell[1]]

----------------------------------------------------------------------------
(* CreateTableIfNotExists: lines 201-330 *)

\* the error an executor that cannot be reached reports
IOError == "io error"

\* RunStmts with the duplicate-column answer of ADD COLUMN treated as fatal
RECURSIVE RunStmtsStrict(_, _, _, _)
RunStmtsStrict(st, stmts, i, fault) ==
    IF i > Len(stmts) THEN st
    ELSE LET s == stmts[i]
             r == IF i = fault THEN ExecResult(st.db, IOError, 0) ELSE Exec(st.db, s)
             st2 == [db |-> r.db, err |-> r.err,
                     issued |-> Append(st.issued, s), errs |-> Append(st.errs, r.err)]
         IN IF r.err # "" THEN st2 ELSE RunStmtsStrict(st2, stmts, i + 1, fault)

\* the statement loop of lines 308-328: st = [db, err, issued, errs], errs
\* being what the executor answered to each statement; the executor fails
\* statement number fault for a reason of its own (0: it never does)
RECURSIVE RunStmts(_, _, _, _)
RunStmts(st, stmts, i, fault) ==
    IF i > Len(stmts) THEN st
    ELSE LET s == stmts[i]
             r == IF i = fault THEN ExecResult(st.db, IOError, 0) ELSE Exec(st.db, s)
             fatal == IF s.op = "AddColumn"
                      THEN r.err # "" /\ r.err # "duplicate column name"
                      ELSE r.err # ""
             st2 == [db |-> r.db, err |-> IF fatal THEN r.err ELSE "",
                     issued |-> Append(st.issued, s), errs |-> Append(st.errs, r.err)]
         IN IF fatal THEN st2 ELSE RunStmts(st2, stmts, i + 1, fault)

NoStmts(d, err) == [db |-> d, err |-> err, issued |-> <<>>, errs |-> <<>>]

CreateTableIfNotExists(d, t, isStruct, fault) ==
    IF ~isStruct THEN NoStmts(d, "NotStruct")
    ELSE IF ParseType(t).err # "" THEN NoStmts(d, ParseType(t).err)
    ELSE RunStmts(NoStmts(d, ""), PlannedStmts(t, ParseType(t)), 1, fault)

----------------------------------------------------------------------------
(* Upsert: lines 141-189 *)

\* reflect.Value.CanInt
CanInt(k) == k \in {"Int", "Int8", "Int16", "Int32", "Int64"}

\* lines 159-165: some tag is pkey and the value is a signed zero
SkipField(f, inst) ==
    \E i \in DOMAIN SplitTag(f.tags) :
        SplitTag(f.tags)[i].tok = "pkey" /\ CanInt(f.kind) /\ inst[f.name] = 0

\* the field loop of lines 155-172: w = [cols, params, primaryKeyFieldToSet]
RECURSIVE UpsertWalk(_, _, _, _)
UpsertWalk(w, fields, i, inst) ==
    IF i > Len(fields) THEN w
    ELSE LET f == fields[i]
             w2 == IF ~f.exported THEN w
                   ELSE IF SkipField(f, inst)
                   THEN [w EXCEPT !.primaryKeyFieldToSet = f.name]
                   ELSE [w EXCEPT !.cols = Append(@, f.name),
                                  !.params = Append(@, inst[f.name])]
         IN UpsertWalk(w2, fields, i + 1, inst)

UpsertStmt(t, inst, overwrite) ==
    LET w == UpsertWalk([cols |-> <<>>, params |-> <<>>, primaryKeyFieldToSet |-> ""],
                        t.fields, 1, inst)
    IN InsertStmt(t, w.cols, w.params, overwrite)

PrimaryKeyFieldToSet(t, inst) ==
    UpsertWalk([cols |-> <<>>, params |-> <<>>, primaryKeyFieldToSet |-> ""],
               t.fields, 1, inst).primaryKeyFieldToSet

\* SetInt that writes the identifier into every field
SetIntEverywhere(inst, field, lastID) == [n \in DOMAIN inst |-> lastID]

\* primaryKeyFieldToSet.SetInt(lastID)
SetInt(inst, field, lastID) == [inst EXCEPT ![field] = lastID]

\* target: what structPointer is; fault: "exec" the executor fails for a
\* reason of its own, "lastid" res.LastInsertId() fails
Upsert(d, t, target, inst, overwrite, fault) ==
    IF target = "Struct"
    THEN [db |-> d, err |-> "NotPtr", inst |-> inst, issued |-> <<>>, lastID |-> 0]
    ELSE IF target = "PtrOther"
    THEN [db |-> d, err |-> "NotPtrToStruct", inst |-> inst, issued |-> <<>>, lastID |-> 0]
    ELSE LET s == UpsertStmt(t, inst, overwrite)
             r == IF fault = "exec" THEN ExecResult(d, IOError, 0) ELSE Exec(d, s)
             toSet == PrimaryKeyFieldToSet(t, inst)
             out(err, after) == [db |-> r.db, err |-> err, inst |-> after,
                                 issued |-> <<s>>, lastID |-> r.lastID]
         IN IF r.err # "" THEN out(r.err, inst)
            ELSE IF toSet # ""
            THEN IF fault = "lastid" THEN out(IOError, inst)
                 ELSE out("", SetInt(inst, toSet, r.lastID))
            ELSE out("", inst)

----------------------------------------------------------------------------
(* Callers of the two operations *)

HasTok(f, tk) == \E i \in DOMAIN f.tags : f.tags[i].tok = tk

\* the values a caller stores in a field: keys may be negative where the
\* kind is signed, other fields take two values
DataVals == {0, 1}

FieldVals(f) ==
    IF ~f.exported THEN {1}
    ELSE IF HasTok(f, "pkey")
    THEN (IF CanInt(f.kind) THEN -1 .. MaxKey ELSE 0 .. MaxKey)
    ELSE DataVals

FieldNames(t) == {t.fields[i].name : i \in DOMAIN t.fields}

FieldOf(t, n) == t.fields[CHOOSE i \in DOMAIN t.fields : t.fields[i].name = n]

TypeIds == {t.id : t \in Types}

TypeById(id) == CHOOSE t \in Types : t.id = id

\* the record instances of a type: every field holds one of its values
RECURSIVE InstancesFrom(_, _)
InstancesFrom(fields, i) ==
    IF i > Len(fields) THEN {<<>>}
    ELSE {(fields[i].name :> v) @@ rest :
            v \in FieldVals(fields[i]), rest \in InstancesFrom(fields, i + 1)}

Instances(t) == InstancesFrom(t.fields, 1)

\* the record types of the program in use
TypesOf(n) == {t \in Types : t.name = n}

\* the number of statements a call would issue if none failed
Planned(t) ==
    IF ParseType(t).err # "" THEN 0 ELSE Len(PlannedStmts(t, ParseType(t)))

NoCall ==
    [op |-> "none", typ |-> "", target |-> "", fault |-> "", overwrite |-> FALSE,
     inst |-> <<>>, instAfter |-> <<>>, err |-> "", issued |-> <<>>, errs |-> <<>>,
     lastID |-> 0, before |-> NoTable, ensured |-> ""]

\* the store stays within the bounds of the model
WithinBounds(d) ==
    \A n \in TableNames :
        /\ Cardinality(d[n].rows) <= MaxRows
        /\ \A r \in d[n].rows : r.rowid <= MaxKey

\* a caller runs CreateTableIfNotExists(ctx, execer, prototype)
CallCreateTable(t, isStruct, fault) ==
    /\ last.op = "none"
    /\ isStruct \/ fault = 0
    /\ \E r \in {CreateTableIfNotExists(db, t, isStruct, fault)} :
       /\ db' = r.db
       /\ last' = [op |-> "CreateTable", typ |-> t.id,
                   target |-> IF isStruct THEN "Struct" ELSE "PtrStruct",
                   fault |-> IF fault = 0 \/ fault > Len(r.issued) THEN "none" ELSE "exec",
                   overwrite |-> FALSE, inst |-> <<>>, instAfter |-> <<>>,
                   err |-> r.err, issued |-> r.issued, errs |-> r.errs,
                   lastID |-> 0, before |-> db[prog], ensured |-> last.ensured]
       /\ UNCHANGED <<prog, txVars>>

\* a caller runs Upsert(ctx, execer, structPointer, overwrite)
CallUpsert(t, target, inst, overwrite, fault) ==
    /\ last.op = "none"
    /\ target # "PtrStruct" => (fault = "none" /\ ~overwrite)
    /\ \E r \in {Upsert(db, t, target, inst, overwrite, fault)} :
       /\ fault = "lastid" => r.err = IOError
       /\ WithinBounds(r.db)
       /\ db' = r.db
       /\ last' = [op |-> "Upsert", typ |-> t.id, target |-> target, fault |-> fault,
                   overwrite |-> overwrite, inst |-> inst, instAfter |-> r.inst,
                   err |-> r.err, issued |-> r.issued, errs |-> <<>>,
                   lastID |-> r.lastID, before |-> db[prog], ensured |-> ""]
       /\ UNCHANGED <<prog, txVars>>

\* the call has returned and the caller goes on; ensured remembers the type
\* whose table the call just synthesized without error
Returned ==
    /\ last.op # "none"
    /\ last' = [NoCall EXCEPT !.ensured =
                    IF last.op = "CreateTable" /\ last.err = "" THEN last.typ ELSE ""]
    /\ UNCHANGED <<prog, db, txVars>>

----------------------------------------------------------------------------
(* DB.Write and DB.Read: lines 46-82, over sync.RWMutex and sqlx.Tx *)

Procs == 1 .. NProcs

NoMutex == [writer |-> 0, readers |-> {}]

\* db.mutex.Lock(), first half: take the writer slot and announce the writer,
\* which keeps new readers out
Lock(p) ==
    /\ pc[p] = "lock" /\ kind[p] = "Write"
    /\ mutex.writer = 0
    /\ mutex' = [mutex EXCEPT !.writer = p]
    /\ pc' = [pc EXCEPT ![p] = "lockWait"]
    /\ UNCHANGED <<kind, tx, cb, dbVars>>

\* db.mutex.Lock(), second half: wait for the active readers to leave
LockWait(p) ==
    /\ pc[p] = "lockWait"
    /\ mutex.readers = {}
    /\ pc' = [pc EXCEPT ![p] = "begin"]
    /\ UNCHANGED <<mutex, kind, tx, cb, dbVars>>

\* RLock that does not look at the writer
RLockIgnoringWriter(p) ==
    /\ pc[p] = "lock" /\ kind[p] = "Read"
    /\ mutex' = [mutex EXCEPT !.readers = @ \cup {p}]
    /\ pc' = [pc EXCEPT ![p] = "begin"]
    /\ UNCHANGED <<kind, tx, cb, dbVars>>

\* db.mutex.RLock(): blocks while a writer is announced or holds the lock
RLock(p) ==
    /\ pc[p] = "lock" /\ kind[p] = "Read"
    /\ mutex.writer = 0
    /\ mutex' = [mutex EXCEPT !.readers = @ \cup {p}]
    /\ pc' = [pc EXCEPT ![p] = "begin"]
    /\ UNCHANGED <<kind, tx, cb, dbVars>>

\* a caller enters DB.Write or DB.Read
Call(p, k) ==
    /\ pc[p] = "idle"
    /\ kind' = [kind EXCEPT ![p] = k]
    /\ pc' = [pc EXCEPT ![p] = "lock"]
    /\ UNCHANGED <<mutex, tx, cb, dbVars>>

\* db.Beginy / db.BeginTxy: lines 49-52, 68-71
Begin(p, ok) ==
    /\ pc[p] = "begin"
    /\ tx' = [tx EXCEPT ![p] = IF ok THEN "open" ELSE "none"]
    /\ pc' = [pc EXCEPT ![p] = IF ok THEN "callback" ELSE "unlock"]
    /\ UNCHANGED <<mutex, kind, cb, dbVars>>

\* f(tx): returns nil, returns an error, or panics; a panic unwinds straight
\* to the deferred unlock
Callback(p, outcome) ==
    /\ pc[p] = "callback"
    /\ cb' = [cb EXCEPT ![p] = outcome]
    /\ pc' = [pc EXCEPT ![p] = CASE outcome = "ok" -> "commit"
                                 [] outcome = "err" -> "rollback"
                                 [] OTHER -> "unlock"]
    /\ UNCHANGED <<mutex, kind, tx, dbVars>>

\* tx.Commit(): lines 59-61, 78-80
Commit(p, ok) ==
    /\ pc[p] = "commit"
    /\ tx' = [tx EXCEPT ![p] = IF ok THEN "committed" ELSE "commitFailed"]
    /\ pc' = [pc EXCEPT ![p] = "unlock"]
    /\ UNCHANGED <<mutex, kind, cb, dbVars>>

\* tx.Rollback(): lines 54-57, 73-76
Rollback(p, ok) ==
    /\ pc[p] = "rollback"
    /\ tx' = [tx EXCEPT ![p] = IF ok THEN "rolledBack" ELSE "rollbackFailed"]
    /\ pc' = [pc EXCEPT ![p] = "unlock"]
    /\ UNCHANGED <<mutex, kind, cb, dbVars>>

\* the deferred db.mutex.Unlock() / db.mutex.RUnlock(), then the call is over
Unlock(p) ==
    /\ pc[p] = "unlock"
    /\ mutex' = IF kind[p] = "Write"
                THEN [mutex EXCEPT !.writer = 0]
                ELSE [mutex EXCEPT !.readers = @ \ {p}]
    /\ pc' = [pc EXCEPT ![p] = "exited"]
    /\ UNCHANGED <<kind, tx, cb, dbVars>>

\* the caller goes on and may call again; what the finished call left behind
\* is no longer looked at
Return(p) ==
    /\ pc[p] = "exited"
    /\ pc' = [pc EXCEPT ![p] = "idle"]
    /\ kind' = [kind EXCEPT ![p] = "Read"]
    /\ tx' = [tx EXCEPT ![p] = "none"]
    /\ cb' = [cb EXCEPT ![p] = "none"]
    /\ UNCHANGED <<mutex, dbVars>>

----------------------------------------------------------------------------
(* Specifications *)

InitTx ==
    /\ mutex = NoMutex
    /\ pc = [p \in Procs |-> "idle"]
    /\ kind = [p \in Procs |-> "Read"]
    /\ tx = [p \in Procs |-> "none"]
    /\ cb = [p \in Procs |-> "none"]

Init ==
    /\ prog \in TableNames
    /\ db = [n \in TableNames |-> NoTable]
    /\ last = NoCall
    /\ InitTx

\* a caller that is not inside a call starts one
Ready == last.op = "none"

Next ==
    \/ Ready /\ \E t \in TypesOf(prog), isStruct \in BOOLEAN :
            \E fault \in 0 .. Planned(t) : CallCreateTable(t, isStruct, fault)
    \/ Ready /\ \E t \in TypesOf(prog) :
            \E inst \in Instances(t) :
                \E target \in {"PtrStruct", "Struct", "PtrOther"}, overwrite \in BOOLEAN,
                   fault \in {"none", "exec", "lastid"} :
                    CallUpsert(t, target, inst, overwrite, fault)
    \/ Returned

NextTx ==
    \/ \E p \in Procs, k \in {"Write", "Read"} : Call(p, k)
    \/ \E p \in Procs : Lock(p)
    \/ \E p \in Procs : LockWait(p)
    \/ \E p \in Procs : RLock(p)
    \/ \E p \in Procs, ok \in BOOLEAN : Begin(p, ok)
    \/ \E p \in Procs, outcome \in {"ok", "err", "panic"} : Callback(p, outcome)
    \/ \E p \in Procs, ok \in BOOLEAN : Commit(p, ok)
    \/ \E p \in Procs, ok \in BOOLEAN : Rollback(p, ok)
    \/ \E p \in Procs : Unlock(p)
    \/ \E p \in Procs : Return(p)

\* the schema synthesizer and the upsert mapper against one store
Spec == Init /\ [][Next]_vars

\* one DB whose callers only use DB.Write / DB.Read
InitOneDB == Init /\ prog = "Basic"

\* concurrent callers of DB.Write / DB.Read on one DB
SpecTx == InitOneDB /\ [][NextTx]_vars

----------------------------------------------------------------------------
(* What the properties below speak about *)

\* the record type of the last call
LastType == TypeById(last.typ)

\* the table the last call found, and the one it left
Before == last.before
After == db[prog]

RECURSIVE ExportedFrom(_, _)
ExportedFrom(fields, i) ==
    IF i > Len(fields) THEN <<>>
    ELSE (IF fields[i].exported THEN <<fields[i]>> ELSE <<>>) \o ExportedFrom(fields, i + 1)

\* the exported fields of a type in declaration order
Exported(t) == ExportedFrom(t.fields, 1)
ExportedNames(t) == {Exported(t)[i].name : i \in DOMAIN Exported(t)}

\* the fields annotated pkey
PkFields(t) == {Exported(t)[i] : i \in {j \in DOMAIN Exported(t) : HasTok(Exported(t)[j], "pkey")}}
SinglePk(t) == Cardinality(PkFields(t)) = 1
PkOf(t) == CHOOSE f \in PkFields(t) : TRUE

SignedKinds == {"Int", "Int8", "Int16", "Int32", "Int64"}

\* the index directives of a field, in annotation order
RECURSIVE DirectivesFrom(_, _)
DirectivesFrom(f, i) ==
    IF i > Len(f.tags) THEN <<>>
    ELSE (CASE f.tags[i].tok \in {"unique", "uniqueWith"} ->
                    <<[cols |-> <<f.name>> \o f.tags[i].args, unique |-> TRUE]>>
            [] f.tags[i].tok \in {"index", "indexWith"} ->
                    <<[cols |-> <<f.name>> \o f.tags[i].args, unique |-> FALSE]>>
            [] OTHER -> <<>>)
         \o DirectivesFrom(f, i + 1)

\* the index directives of a type, in declaration order
RECURSIVE TypeDirectivesFrom(_, _)
TypeDirectivesFrom(fs, i) ==
    IF i > Len(fs) THEN <<>>
    ELSE DirectivesFrom(fs[i], 1) \o TypeDirectivesFrom(fs, i + 1)

Directives(t) == TypeDirectivesFrom(Exported(t), 1)

IsPrefix(s, t) == Len(s) <= Len(t) /\ \A i \in DOMAIN s : s[i] = t[i]

\* a table as schema synthesis sees it: everything but the rows
Schema(tbl) ==
    [exists |-> tbl.exists, pk |-> tbl.pk, pkType |-> tbl.pkType,
     autoinc |-> tbl.autoinc, cols |-> tbl.cols, idx |-> tbl.idx]

\* a row of tbl that holds the exported field values of inst
Holds(tbl, t, r, inst) ==
    \A n \in ExportedNames(t) : n \in ColNames(tbl) /\ r.cells[n] = Cell(inst[n])

ValidCreate == last.op = "CreateTable" /\ last.target = "Struct"
ValidUpsert == last.op = "Upsert" /\ last.target = "PtrStruct"

----------------------------------------------------------------------------
(* C1 *)

\* C1: when CreateTableIfNotExists has just returned without error for a
\* record type and is called again for the same type (the executor not
\* failing for a reason of its own), the second call returns no error and
\* leaves tables, columns and indexes as they were.
C1_Idempotent ==
    (ValidCreate /\ last.fault = "none" /\ last.ensured = last.typ)
        => (last.err = "" /\ Schema(After) = Schema(Before))

\* a second call on a table that holds columns, an index and rows
C1_Witness ==
    /\ ValidCreate /\ last.fault = "none" /\ last.ensured = last.typ
    /\ last.err = ""
    /\ Len(last.issued) > 2
    /\ After.idx # {} /\ After.rows # {}

----------------------------------------------------------------------------
(* C2 *)

\* the primary key of inst is the zero value of its kind
ZeroKey(t, inst) == inst[PkOf(t).name] = Zero(PkOf(t).kind)

\* C2: whenever Upsert returns without error for an instance whose
\* primary-key field holds the zero value of its kind, the field is non-zero
\* afterwards and a stored row under that key holds the instance's values.
C2_BackFill ==
    (ValidUpsert /\ last.err = "" /\ SinglePk(LastType) /\ ZeroKey(LastType, last.inst))
        => /\ ~ZeroKey(LastType, last.instAfter)
           /\ \E r \in After.rows : Holds(After, LastType, r, last.instAfter)

----------------------------------------------------------------------------
(* C3 *)

\* the table holds what schema synthesis for t creates: the primary key, a
\* column per exported field and an index under the name of every directive
Synthesized(t, tbl) ==
    /\ tbl.exists
    /\ tbl.pk = PkOf(t).name
    /\ ExportedNames(t) \subseteq ColNames(tbl)
    /\ \A i \in DOMAIN Directives(t) :
            \E ix \in tbl.idx : ix.cols = Directives(t)[i].cols

\* the key columns of t: the primary key where the caller supplies it, and
\* the column list of every unique directive
KeySupplied(t, inst) == ~(PkOf(t).kind \in SignedKinds /\ ZeroKey(t, inst))

UniqueKeys(t, inst) ==
    (IF KeySupplied(t, inst) THEN {<<PkOf(t).name>>} ELSE {})
    \cup {Directives(t)[i].cols : i \in {j \in DOMAIN Directives(t) : Directives(t)[j].unique}}

\* the rows of tbl that equal inst on one of the key column lists
Colliding(t, inst, tbl) ==
    {r \in tbl.rows : \E k \in UniqueKeys(t, inst) :
        \A j \in DOMAIN k : r.cells[k[j]] = Cell(inst[k[j]])}

\* C3: when a stored row equals the instance on the primary key, on a
\* unique-annotated field or on a full composite-unique column set, Upsert
\* with overwrite=false returns an error and leaves the rows unchanged, and
\* Upsert with overwrite=true returns no error and leaves one row for that
\* key, holding the instance's values.
C3_CollisionOutcome ==
    (ValidUpsert /\ last.fault = "none" /\ SinglePk(LastType)
        /\ Synthesized(LastType, Before)
        /\ Colliding(LastType, last.inst, Before) # {})
        => IF last.overwrite
           THEN /\ last.err = ""
                /\ Cardinality(Colliding(LastType, last.instAfter, After)) = 1
                /\ \A r \in Colliding(LastType, last.instAfter, After) :
                        Holds(After, LastType, r, last.instAfter)
           ELSE /\ last.err # ""
                /\ After.rows = Before.rows

----------------------------------------------------------------------------
(* C4 *)

Holding(p) == mutex.writer = p \/ p \in mutex.readers

\* C4: when a call of DB.Write or DB.Read is over, on whatever path, it
\* holds the lock no more, and a transaction it opened has been resolved:
\* by Commit when the callback reported success, by Rollback when the
\* callback failed; the transaction is never left open.
C4_Resolved ==
    \A p \in Procs :
        pc[p] = "exited"
            => /\ ~Holding(p)
               /\ tx[p] # "open"
               /\ cb[p] = "ok" => tx[p] \in {"committed", "commitFailed"}
               /\ cb[p] \in {"err", "panic"} => tx[p] \in {"rolledBack", "rollbackFailed"}

----------------------------------------------------------------------------
(* C5 *)

\* the callback of p is running, or its transaction is being resolved
InTx(p) == pc[p] \in {"callback", "commit", "rollback"}

\* C5: while the callback of a DB.Write call is running, between the begin
\* of its transaction and its commit or rollback, no callback of another
\* DB.Write or DB.Read call on the same DB is running.
C5_WriterExcludes ==
    \A p, q \in Procs :
        (p # q /\ kind[p] = "Write" /\ InTx(p)) => ~InTx(q)

\* the callbacks of two DB.Read calls run at the same time while a writer
\* waits for the lock
C5_Witness ==
    \E p, q, w \in Procs :
        /\ p # q
        /\ kind[p] = "Read" /\ pc[p] = "callback"
        /\ kind[q] = "Read" /\ pc[q] = "callback"
        /\ kind[w] = "Write" /\ pc[w] = "lockWait"

----------------------------------------------------------------------------
(* C6 *)

\* C6: if more than one field of the record type carries pkey,
\* CreateTableIfNotExists fails with a MultiplePrimaryKeys error and issues
\* no statement.
C6_MultiplePkRejected ==
    (ValidCreate /\ Cardinality(PkFields(LastType)) > 1)
        => (last.err = "MultiplePrimaryKeys" /\ last.issued = <<>>)

----------------------------------------------------------------------------
(* C7 *)

\* some field carries autoinc without pkey or without resolving to INTEGER
BadAutoInc(t) ==
    \E i \in DOMAIN Exported(t) :
        /\ HasTok(Exported(t)[i], "autoinc")
        /\ \/ ~HasTok(Exported(t)[i], "pkey")
           \/ SqlTypeOf(Exported(t)[i].kind) # "INTEGER"

\* some field carries pkey and autoinc, in either order
GoodAutoInc(t) ==
    \E i \in DOMAIN Exported(t) :
        HasTok(Exported(t)[i], "autoinc") /\ HasTok(Exported(t)[i], "pkey")

InvalidAutoIncrement == {"AutoIncNotInteger", "AutoIncNotPkey"}

AllSupported(t) == \A i \in DOMAIN Exported(t) : SqlTypeOf(Exported(t)[i].kind) # ""

\* C7: CreateTableIfNotExists fails with InvalidAutoIncrement exactly when
\* some field carries autoinc and lacks pkey or does not resolve to INTEGER;
\* then it issues no statement; a field with pkey and autoinc of an integer
\* kind is declared PRIMARY KEY AUTOINCREMENT whatever the order of the tokens.
C7_AutoIncValidity ==
    (ValidCreate /\ AllSupported(LastType))
        => /\ (last.err \in InvalidAutoIncrement) <=> BadAutoInc(LastType)
           /\ last.err \in InvalidAutoIncrement => last.issued = <<>>
           /\ (GoodAutoInc(LastType) /\ ~BadAutoInc(LastType))
                => /\ last.issued # <<>>
                   /\ last.issued[1].op = "CreateTable"
                   /\ last.issued[1].flag

----------------------------------------------------------------------------
(* C8 *)

\* t extends t0 by new fields, none of them a primary key
ExtendsBy(t, t0) ==
    /\ Len(Exported(t0)) < Len(Exported(t))
    /\ IsPrefix(Exported(t0), Exported(t))
    /\ \A i \in Len(Exported(t0)) + 1 .. Len(Exported(t)) : ~HasTok(Exported(t)[i], "pkey")

NewFields(t, t0) ==
    {Exported(t)[i] : i \in Len(Exported(t0)) + 1 .. Len(Exported(t))}

\* C8: when CreateTableIfNotExists runs for a record type that extends, by
\* new non-primary-key fields, the type an existing table with rows was
\* synthesized from, the call succeeds, the table gains one column per new
\* field, no row is added or removed, every old column value is unchanged,
\* and every existing row reads the new column as the zero value of its kind.
C8_AdditiveMigration ==
    \A t0 \in TypesOf(prog) :
        (ValidCreate /\ last.fault = "none" /\ ExtendsBy(LastType, t0)
            /\ Before.exists /\ ColNames(Before) = ExportedNames(t0)
            /\ Before.rows # {})
            => /\ last.err = ""
               /\ ColNames(After) = ExportedNames(LastType)
               /\ {r.rowid : r \in After.rows} = {r.rowid : r \in Before.rows}
               /\ \A r \in Before.rows : \E r2 \in After.rows :
                    /\ r2.rowid = r.rowid
                    /\ \A c \in ColNames(Before) : r2.cells[c] = r.cells[c]
                    /\ \A f \in NewFields(LastType, t0) :
                            ReadBack(f.kind, r2.cells[f.name])
                                = [err |-> "", val |-> Zero(f.kind)]

----------------------------------------------------------------------------
(* C9 *)

RECURSIVE AddColumnsFrom(_, _)
AddColumnsFrom(t, i) ==
    IF i > Len(Exported(t)) THEN <<>>
    ELSE (IF HasTok(Exported(t)[i], "pkey") THEN <<>>
          ELSE <<Stmt("AddColumn", t.name, <<Exported(t)[i].name>>,
                      <<SqlTypeOf(Exported(t)[i].kind)>>, FALSE)>>)
         \o AddColumnsFrom(t, i + 1)

\* the statements of schema synthesis for t: the table, a column per
\* non-primary-key field in declaration order, an index per directive
ExpectedStmts(t) ==
    <<Stmt("CreateTable", t.name, <<PkOf(t).name>>, <<SqlTypeOf(PkOf(t).kind)>>,
           HasTok(PkOf(t), "autoinc"))>>
    \o AddColumnsFrom(t, 1)
    \o [i \in DOMAIN Directives(t) |->
            Stmt("CreateIndex", t.name, Directives(t)[i].cols, <<>>, Directives(t)[i].unique)]

\* the answer to a statement does not stop synthesis
Tolerated(s, e) == e = "" \/ (s.op = "AddColumn" /\ e = "duplicate column name")

\* C9: the statements one CreateTableIfNotExists call issues are a prefix of
\* the CREATE TABLE statement, the ADD COLUMN statements of the
\* non-primary-key fields in declaration order and the CREATE INDEX
\* statements in directive order; they stop right after the first statement
\* that fails with anything but a duplicate-column failure of an ADD COLUMN,
\* and that failure is the error returned.
C9_OrderFailFast ==
    (ValidCreate /\ SinglePk(LastType) /\ AllSupported(LastType))
        => /\ IsPrefix(last.issued, ExpectedStmts(LastType))
           /\ \A i \in 1 .. Len(last.issued) - 1 : Tolerated(last.issued[i], last.errs[i])
           /\ last.issued # <<>>
                => IF Tolerated(last.issued[Len(last.issued)], last.errs[Len(last.issued)])
                   THEN last.err = "" /\ last.issued = ExpectedStmts(LastType)
                   ELSE last.err = last.errs[Len(last.issued)]

----------------------------------------------------------------------------
(* C10 *)

RECURSIVE Without(_, _)
Without(s, x) ==
    IF s = <<>> THEN <<>>
    ELSE (IF Head(s) = x THEN <<>> ELSE <<Head(s)>>) \o Without(Tail(s), x)

\* the names of the exported fields in declaration order
NameSeq(t) == [i \in DOMAIN Exported(t) |-> Exported(t)[i].name]

\* C10: for a primary-key field of any supported kind the INSERT statement
\* of Upsert omits the primary-key column if and only if the field holds the
\* zero value of its kind, and then a successful call back-fills the field
\* from the generated identifier; a non-zero key is passed as the parameter of
\* its column and the instance is not changed; all other exported fields are
\* included in declaration order.
C10_ZeroKeyConvention ==
    (ValidUpsert /\ SinglePk(LastType))
        => /\ Len(last.issued) = 1
           /\ (IndexOf(last.issued[1].cols, PkOf(LastType).name) = 0)
                <=> ZeroKey(LastType, last.inst)
           /\ (ZeroKey(LastType, last.inst) /\ last.err = "")
                => last.instAfter[PkOf(LastType).name] = last.lastID
           /\ ~ZeroKey(LastType, last.inst)
                => /\ IndexOf(last.issued[1].cols, PkOf(LastType).name) # 0
                   /\ last.instAfter = last.inst
           /\ Without(last.issued[1].cols, PkOf(LastType).name)
                = Without(NameSeq(LastType), PkOf(LastType).name)
           /\ \A i \in DOMAIN last.issued[1].cols :
                last.issued[1].args[i] = last.inst[last.issued[1].cols[i]]

----------------------------------------------------------------------------
(* C11 *)

\* the names of the fields annotated pkey
PkNames(t) == {f.name : f \in PkFields(t)}

\* C11: the only field of the instance Upsert writes is a primary-key field,
\* and only when the INSERT succeeded on an instance whose key was zero and
\* fetching the generated identifier succeeded; on every error outcome every
\* field is as before the call, and when fetching the identifier fails the
\* error is returned although the row was inserted.
C11_OnlyBackFill ==
    last.op = "Upsert"
        => /\ DOMAIN last.instAfter = DOMAIN last.inst
           /\ \A n \in DOMAIN last.inst :
                last.instAfter[n] # last.inst[n]
                    => /\ n \in PkNames(LastType)
                       /\ last.inst[n] = 0
                       /\ last.target = "PtrStruct"
                       /\ last.fault = "none"
                       /\ last.err = ""
                       /\ last.instAfter[n] = last.lastID
                       /\ \E r \in After.rows : r.rowid = last.lastID
           /\ last.err # "" => last.instAfter = last.inst
           /\ last.fault = "lastid"
                => /\ last.err # ""
                   /\ \E r \in After.rows :
                        /\ r.rowid = last.lastID
                        /\ \/ r \notin Before.rows
                           \/ last.overwrite

\* fetching the identifier failed after the row went in: the error is
\* returned and the zero key stays
C11_Witness ==
    /\ ValidUpsert /\ last.fault = "lastid" /\ last.err = IOError
    /\ SinglePk(LastType) /\ ZeroKey(LastType, last.inst)
    /\ last.instAfter = last.inst
    /\ Cardinality(After.rows) = Cardinality(Before.rows) + 1
    /\ Before.rows # {}

====
